---- MODULE Spec2Model ----
(***************************************************************************)
(* Air quality ingestion pipeline of asthma-guardian                       *)
(* (backend/lambda_functions/data_ingestion/handler.py).                   *)
(*                                                                         *)
(* Concentrations are fixed-point integers in units of 0.05 ug/m3          *)
(* (12.0 is 240, 12.1 is 242, 12.05 is 241).  On this grid the exact       *)
(* rational arithmetic below and the handler's float arithmetic give the   *)
(* same integers, so PyInt of a quotient is what int() returns there.      *)
(***************************************************************************)
EXTENDS Integers, Sequences, FiniteSets, TLC

VARIABLES
    env,               \* what the upstream providers, the table and the clock may do
    clock,             \* last value datetime.utcnow() returned
    store,             \* items of air_quality_table
    event,             \* event[r]: the event invocation r is started with
    pc,                \* pc[r]: position of invocation r
    postcodes,         \* postcodes[r]: the list ingest_air_quality_data iterates
    idx,               \* idx[r]: position of the for loop in postcodes[r]
    results,           \* results[r]: the results dict of the run
    nsw_data,          \* nsw_data[r]: what fetch_nsw_air_quality_data returned for the current location
    bom_data,          \* bom_data[r]: what fetch_bom_air_quality_data returned for the current location
    air_quality_data,  \* air_quality_data[r]: what fetch_air_quality_data returned
    response,          \* response[r]: what handler returned
    calls,             \* calls[r]: the adapter and table calls invocation r has made, in order
    rating,            \* an AQI and what get_quality_rating returned for it
    query              \* the last request to /api/air-quality/current and its response

vars == <<env, clock, store, event, pc, postcodes, idx, results,
          nsw_data, bom_data, air_quality_data, response, calls, rating, query>>

-----------------------------------------------------------------------------
(* Bounds *)

MaxRuns == 2
MaxRegistry == 2
MaxLen == 2
MaxClock == 4
MaxPm25 == 3020
MaxPm10 == 710
BatchLen == 10
BatchFail == 3
MaxAqi == 320
PermLen == 3
TicksPerSecond == 2

Runs == 1..MaxRuns

-----------------------------------------------------------------------------
(* Python values *)

None == [none |-> TRUE]

Max(a, b) == IF a >= b THEN a ELSE b

Min(a, b) == IF a <= b THEN a ELSE b

\* int(num / den) for den > 0: truncation toward zero
PyInt(num, den) == IF num >= 0 THEN num \div den ELSE -((-num) \div den)

\* d.get(k, default)
Get(d, k, default) == IF k \in DOMAIN d THEN d[k] ELSE default

Range(s) == {s[k] : k \in DOMAIN s}

-----------------------------------------------------------------------------
(* AQI calculator *)

\* faulty variant: the second band is interpolated from 12.0, not from 12.1
calculate_pm25_aqi_from_12_0(pm25) ==
    IF pm25 <= 240 THEN PyInt(pm25 * 50, 240)
    ELSE IF pm25 <= 708 THEN PyInt((pm25 - 240) * (100 - 51) + 51 * (708 - 240), 708 - 240)
    ELSE IF pm25 <= 1108 THEN PyInt((pm25 - 710) * (150 - 101) + 101 * (1108 - 710), 1108 - 710)
    ELSE IF pm25 <= 3008 THEN PyInt((pm25 - 1110) * (200 - 151) + 151 * (3008 - 1110), 3008 - 1110)
    ELSE 201

\* faulty variant: the fourth band is interpolated beyond 150.4 too
calculate_pm25_aqi_unsaturated(pm25) ==
    IF pm25 <= 240 THEN PyInt(pm25 * 50, 240)
    ELSE IF pm25 <= 708 THEN PyInt((pm25 - 242) * (100 - 51) + 51 * (708 - 242), 708 - 242)
    ELSE IF pm25 <= 1108 THEN PyInt((pm25 - 710) * (150 - 101) + 101 * (1108 - 710), 1108 - 710)
    ELSE PyInt((pm25 - 1110) * (200 - 151) + 151 * (3008 - 1110), 3008 - 1110)

\* 12.0 = 240, 12.1 = 242, 35.4 = 708, 35.5 = 710, 55.4 = 1108, 55.5 = 1110, 150.4 = 3008
calculate_pm25_aqi(pm25) ==
    IF pm25 <= 240 THEN PyInt(pm25 * 50, 240)
    ELSE IF pm25 <= 708 THEN PyInt((pm25 - 242) * (100 - 51) + 51 * (708 - 242), 708 - 242)
    ELSE IF pm25 <= 1108 THEN PyInt((pm25 - 710) * (150 - 101) + 101 * (1108 - 710), 1108 - 710)
    ELSE IF pm25 <= 3008 THEN PyInt((pm25 - 1110) * (200 - 151) + 151 * (3008 - 1110), 3008 - 1110)
    ELSE 201

\* faulty variant: the third band of pm10 starts its index at 100 - 51, not at 101
calculate_pm10_aqi_low_band(pm10) ==
    IF pm10 <= 1080 THEN PyInt(pm10 * 50, 1080)
    ELSE IF pm10 <= 3080 THEN PyInt((pm10 - 1100) * (100 - 51) + 51 * (3080 - 1100), 3080 - 1100)
    ELSE IF pm10 <= 5080 THEN PyInt((pm10 - 3100) * (150 - 101) + (100 - 51) * (5080 - 3100), 5080 - 3100)
    ELSE IF pm10 <= 7080 THEN PyInt((pm10 - 5100) * (200 - 151) + 151 * (7080 - 5100), 7080 - 5100)
    ELSE 201

\* 54 = 1080, 55 = 1100, 154 = 3080, 155 = 3100, 254 = 5080, 255 = 5100, 354 = 7080
\* faulty variant: the scale goes on above 354 with the index 301
calculate_pm10_aqi_beyond_scale(pm10) ==
    IF pm10 <= 1080 THEN PyInt(pm10 * 50, 1080)
    ELSE IF pm10 <= 3080 THEN PyInt((pm10 - 1100) * (100 - 51) + 51 * (3080 - 1100), 3080 - 1100)
    ELSE IF pm10 <= 5080 THEN PyInt((pm10 - 3100) * (150 - 101) + 101 * (5080 - 3100), 5080 - 3100)
    ELSE IF pm10 <= 7080 THEN PyInt((pm10 - 5100) * (200 - 151) + 151 * (7080 - 5100), 7080 - 5100)
    ELSE 301

calculate_pm10_aqi(pm10) ==
    IF pm10 <= 1080 THEN PyInt(pm10 * 50, 1080)
    ELSE IF pm10 <= 3080 THEN PyInt((pm10 - 1100) * (100 - 51) + 51 * (3080 - 1100), 3080 - 1100)
    ELSE IF pm10 <= 5080 THEN PyInt((pm10 - 3100) * (150 - 101) + 101 * (5080 - 3100), 5080 - 3100)
    ELSE IF pm10 <= 7080 THEN PyInt((pm10 - 5100) * (200 - 151) + 151 * (7080 - 5100), 7080 - 5100)
    ELSE 201

\* faulty variant: the PM2.5 sub-index alone
calculate_aqi_pm25_only(measurements) ==
    calculate_pm25_aqi(Get(measurements, "pm25", 0))

\* faulty variant: ozone takes part in the index
calculate_aqi_with_ozone(measurements) ==
    Max(Max(calculate_pm25_aqi(Get(measurements, "pm25", 0)),
            calculate_pm10_aqi(Get(measurements, "pm10", 0))),
        Get(measurements, "ozone", 0))

\* measurement values that are no numbers, JSON null and a JSON string, coded
\* below every concentration
NullValue == -1000001

TextValue == -1000002

\* the comparisons of the sub-index functions raise TypeError for other values
IsNumber(v) == v \notin {NullValue, TextValue}

\* faulty variant: a value that is no number counts as 0.0
calculate_aqi_bad_value_as_zero(measurements) ==
    LET pm25 == Get(measurements, "pm25", 0)
        pm10 == Get(measurements, "pm10", 0)
    IN  Max(IF IsNumber(pm25) THEN calculate_pm25_aqi(pm25) ELSE 0,
            IF IsNumber(pm10) THEN calculate_pm10_aqi(pm10) ELSE 0)

\* try: max of the two sub-indices; except Exception: 0
calculate_aqi(measurements) ==
    LET pm25 == Get(measurements, "pm25", 0)
        pm10 == Get(measurements, "pm10", 0)
        pm25_aqi == calculate_pm25_aqi(pm25)
        pm10_aqi == calculate_pm10_aqi(pm10)
    IN  IF ~IsNumber(pm25) \/ ~IsNumber(pm10) THEN 0 ELSE Max(pm25_aqi, pm10_aqi)

\* faulty variant: the upper bound of each category is exclusive
get_quality_rating_exclusive(aqi) ==
    IF aqi < 50 THEN "good"
    ELSE IF aqi < 100 THEN "moderate"
    ELSE IF aqi < 150 THEN "unhealthy_for_sensitive_groups"
    ELSE IF aqi < 200 THEN "unhealthy"
    ELSE IF aqi < 300 THEN "very_unhealthy"
    ELSE "hazardous"

get_quality_rating(aqi) ==
    IF aqi <= 50 THEN "good"
    ELSE IF aqi <= 100 THEN "moderate"
    ELSE IF aqi <= 150 THEN "unhealthy_for_sensitive_groups"
    ELSE IF aqi <= 200 THEN "unhealthy"
    ELSE IF aqi <= 300 THEN "very_unhealthy"
    ELSE "hazardous"

-----------------------------------------------------------------------------
(* Location registry *)

NSW_POSTCODES ==
    << "2000", "2001", "2010", "2011", "2020", "2030", "2040", "2050", "2060", "2070",
       "2088", "2090", "2100", "2110", "2120", "2130", "2140", "2150", "2160", "2170",
       "2200", "2210", "2220", "2230", "2250", "2300", "2320", "2325", "2330", "2340",
       "2350", "2400", "2450", "2500", "2520", "2530", "2540", "2550", "2560", "2570",
       "2580", "2590", "2600", "2610", "2620", "2640", "2650", "2700", "2710", "2720",
       "2730", "2740", "2750", "2760", "2770", "2780", "2790", "2800", "2810", "2820",
       "2830", "2840", "2850", "2860", "2870", "2880", "2890", "2900", "2910", "2920",
       "2930", "2940", "2950", "2960", "2970", "2980", "2990", "3000" >>

\* the registry, cut to its first MaxRegistry entries
get_nsw_postcodes == SubSeq(NSW_POSTCODES, 1, Min(MaxRegistry, Len(NSW_POSTCODES)))

\* a postcode that is not in the registry
OtherPostcode == "9999"

AllPostcodes == Range(NSW_POSTCODES) \cup {OtherPostcode}

-----------------------------------------------------------------------------
(* Normalizer: provider payload -> Reading *)

EmptyDict == [k \in {} |-> 0]

\* a JSON value that is not an object (data.get raises AttributeError on it)
IsDict(x) == "list" \notin DOMAIN x

process_nsw_air_quality_data(data, postcode, now) ==
    IF ~IsDict(data) THEN None
    ELSE
    LET location == Get(data, "location", EmptyDict)
        latitude == Get(location, "latitude", 0)
        longitude == Get(location, "longitude", 0)
        measurements == Get(data, "measurements", EmptyDict)
        aqi == calculate_aqi(measurements)
        quality_rating == get_quality_rating(aqi)
    IN  [postcode |-> postcode,
         latitude |-> latitude,
         longitude |-> longitude,
         timestamp |-> now,
         aqi |-> aqi,
         quality_rating |-> quality_rating,
         pm25 |-> Get(measurements, "pm25", 0),
         pm10 |-> Get(measurements, "pm10", 0),
         ozone |-> Get(measurements, "ozone", 0),
         no2 |-> Get(measurements, "no2", 0),
         so2 |-> Get(measurements, "so2", 0),
         source |-> "nsw_government"]

\* faulty variant: the BOM reading is tagged with the NSW provider
process_bom_air_quality_data_nsw_tag(data, postcode, now) ==
    IF ~IsDict(data) THEN None
    ELSE process_nsw_air_quality_data(
             [location |-> [latitude |-> Get(Get(data, "location", EmptyDict), "lat", 0),
                            longitude |-> Get(Get(data, "location", EmptyDict), "lon", 0)],
              measurements |-> Get(data, "air_quality", EmptyDict)],
             postcode, now)

process_bom_air_quality_data(data, postcode, now) ==
    IF ~IsDict(data) THEN None
    ELSE
    LET location == Get(data, "location", EmptyDict)
        latitude == Get(location, "lat", 0)
        longitude == Get(location, "lon", 0)
        measurements == Get(data, "air_quality", EmptyDict)
        aqi == calculate_aqi(measurements)
        quality_rating == get_quality_rating(aqi)
    IN  [postcode |-> postcode,
         latitude |-> latitude,
         longitude |-> longitude,
         timestamp |-> now,
         aqi |-> aqi,
         quality_rating |-> quality_rating,
         pm25 |-> Get(measurements, "pm25", 0),
         pm10 |-> Get(measurements, "pm10", 0),
         ozone |-> Get(measurements, "ozone", 0),
         no2 |-> Get(measurements, "no2", 0),
         so2 |-> Get(measurements, "so2", 0),
         source |-> "bom"]

-----------------------------------------------------------------------------
(* Source adapters.  resp is what requests.get did: kind "network_error"   *)
(* (the request or raise_for_status raised), "bad_json" (response.json()   *)
(* raised) or "json" with the parsed body.                                 *)

\* faulty variant: a payload without one of the five pollutants gives no data
fetch_nsw_air_quality_data_strict(resp, postcode, now) ==
    IF resp.kind # "json" THEN None
    ELSE IF DOMAIN resp.body = {} \/ "data" \notin DOMAIN resp.body THEN None
    ELSE IF ~IsDict(resp.body.data) THEN None
    ELSE IF ~({"pm25", "pm10", "ozone", "no2", "so2"}
                \subseteq DOMAIN Get(resp.body.data, "measurements", EmptyDict))
         THEN None
    ELSE process_nsw_air_quality_data(resp.body.data, postcode, now)

fetch_nsw_air_quality_data(resp, postcode, now) ==
    IF resp.kind # "json" THEN None
    ELSE IF DOMAIN resp.body = {} \/ "data" \notin DOMAIN resp.body THEN None
    ELSE process_nsw_air_quality_data(resp.body.data, postcode, now)

fetch_bom_air_quality_data(resp, postcode, now) ==
    IF resp.kind # "json" THEN None
    ELSE IF DOMAIN resp.body = {} \/ "observations" \notin DOMAIN resp.body THEN None
    ELSE process_bom_air_quality_data(resp.body.observations, postcode, now)

-----------------------------------------------------------------------------
(* Persistence *)

\* timestamp[:10], the calendar date of a clock value (two clock values a day)
DateOf(ts) == ts \div 2

\* faulty variant: the item's aqi is the PM2.5 sub-index
StoreItem_aqi_of_pm25(postcode, d, now) ==
    [PK |-> [prefix |-> "LOCATION", key |-> postcode],
     SK |-> [prefix |-> "TIMESTAMP", key |-> d.timestamp],
     GSI1PK |-> [prefix |-> "DATE", key |-> DateOf(d.timestamp)],
     GSI1SK |-> [prefix |-> "LOCATION", key |-> postcode],
     postcode |-> postcode,
     latitude |-> d.latitude,
     longitude |-> d.longitude,
     timestamp |-> d.timestamp,
     aqi |-> calculate_pm25_aqi(d.pm25),
     quality_rating |-> d.quality_rating,
     pm25 |-> d.pm25,
     pm10 |-> d.pm10,
     ozone |-> d.ozone,
     no2 |-> d.no2,
     so2 |-> d.so2,
     source |-> d.source,
     ttl |-> [after |-> now, days |-> 7]]

\* the item store_air_quality_data builds; now is the clock read for the ttl,
\* which lies 7 days after it
StoreItem(postcode, d, now) ==
    [PK |-> [prefix |-> "LOCATION", key |-> postcode],
     SK |-> [prefix |-> "TIMESTAMP", key |-> d.timestamp],
     GSI1PK |-> [prefix |-> "DATE", key |-> DateOf(d.timestamp)],
     GSI1SK |-> [prefix |-> "LOCATION", key |-> postcode],
     postcode |-> postcode,
     latitude |-> d.latitude,
     longitude |-> d.longitude,
     timestamp |-> d.timestamp,
     aqi |-> d.aqi,
     quality_rating |-> d.quality_rating,
     pm25 |-> d.pm25,
     pm10 |-> d.pm10,
     ozone |-> d.ozone,
     no2 |-> d.no2,
     so2 |-> d.so2,
     source |-> d.source,
     ttl |-> [after |-> now, days |-> 7]]

\* faulty variant: the table is keyed by PK alone
PutItem_by_location(table, item) ==
    {x \in table : x.PK # item.PK} \cup {item}

\* faulty variant: the table keeps every item ever put
PutItem_keep_all(table, item) == table \cup {item}

\* faulty variant: the table keeps one item for a location and a day
PutItem_by_date(table, item) ==
    {x \in table : ~(x.PK = item.PK /\ x.GSI1PK = item.GSI1PK)} \cup {item}

\* air_quality_table.put_item: the item replaces the one with the same (PK, SK)
PutItem(table, item) ==
    {x \in table : ~(x.PK = item.PK /\ x.SK = item.SK)} \cup {item}

-----------------------------------------------------------------------------
(* The current air quality query (air_quality/handler.py)                  *)

\* datetime.isoformat() + 'Z' of the instant ts: seconds in fixed width, and
\* the microseconds, in fixed width after a '.', only when they are not zero.
\* The clock has TicksPerSecond values in each second.
IsoFormat(ts) ==
    [seconds |-> ts \div TicksPerSecond,
     fraction |-> ts % TicksPerSecond # 0,
     microseconds |-> ts % TicksPerSecond]

\* a < b for two such strings, character by character: they differ first in
\* the seconds, or where one has '.' and the other 'Z' ('.' is the smaller
\* character), or in the digits of the microseconds
IsoLess(a, b) ==
    IF a.seconds # b.seconds THEN a.seconds < b.seconds
    ELSE IF a.fraction /\ b.fraction THEN a.microseconds < b.microseconds
    ELSE a.fraction /\ ~b.fraction

\* the order of two sort keys 'TIMESTAMP#<timestamp>' in the table
SortKeyLess(x, y) == IsoLess(IsoFormat(x.key), IsoFormat(y.key))

\* table.query(PK = LOCATION#postcode, ScanIndexForward=False, Limit=1)
QueryLatest(table, postcode) ==
    LET items == {x \in table : x.PK = [prefix |-> "LOCATION", key |-> postcode]}
    IN  {x \in items : \A y \in items : ~SortKeyLess(x.SK, y.SK)}

\* outcome is what table.query did: "ok" or "raise"
get_current_air_quality_data(postcode, table, outcome) ==
    IF outcome # "ok" \/ QueryLatest(table, postcode) = {} THEN None
    ELSE LET item == CHOOSE x \in QueryLatest(table, postcode) : TRUE
         IN  [location |-> [postcode |-> postcode,
                            latitude |-> item.latitude,
                            longitude |-> item.longitude],
              current |-> [timestamp |-> item.timestamp,
                           aqi |-> item.aqi,
                           quality_rating |-> item.quality_rating,
                           pollutants |-> [pm25 |-> item.pm25,
                                           pm10 |-> item.pm10,
                                           ozone |-> item.ozone,
                                           no2 |-> item.no2,
                                           so2 |-> item.so2]]]

create_success_response(data) == [statusCode |-> 200, body |-> data]

create_error_response(status_code, message) ==
    [statusCode |-> status_code,
     body |-> [error |-> [code |-> status_code, message |-> message]]]

handle_current_air_quality(query_params, table, outcome) ==
    LET postcode == Get(query_params, "postcode", "")
        current_data == get_current_air_quality_data(postcode, table, outcome)
    IN  IF postcode = ""
        THEN create_error_response(400, "postcode parameter is required")
        ELSE IF current_data = None
        THEN create_error_response(404, "No air quality data found for the specified location")
        ELSE create_success_response(current_data)

-----------------------------------------------------------------------------
(* The environment: provider responses, table outcomes, events *)

NetworkError == [kind |-> "network_error", body |-> EmptyDict]

BadJson == [kind |-> "bad_json", body |-> EmptyDict]

JsonResp(body) == [kind |-> "json", body |-> body]

\* a JSON list where an object is expected
NotADict == [list |-> TRUE]

Measurement(pm25, pm10, ozone, no2, so2) ==
    [pm25 |-> pm25, pm10 |-> pm10, ozone |-> ozone, no2 |-> no2, so2 |-> so2]

NswPayload(m) == [location |-> [latitude |-> -34, longitude |-> 151], measurements |-> m]

BomPayload(m) == [location |-> [lat |-> -34, lon |-> 151], air_quality |-> m]

NswOk(m) == JsonResp([data |-> NswPayload(m)])

BomOk(m) == JsonResp([observations |-> BomPayload(m)])

\* responses from which an adapter gets no data
NswFailures ==
    {NetworkError, BadJson, JsonResp(EmptyDict), JsonResp([status |-> "ok"]),
     JsonResp([data |-> NotADict])}

BomFailures ==
    {NetworkError, BadJson, JsonResp(EmptyDict), JsonResp([data |-> NswPayload(EmptyDict)]),
     JsonResp([data |-> NotADict]), JsonResp([observations |-> NotADict])}

\* pm25 5.0, pm10 20.0
GoodAir == Measurement(100, 400, 1, 2, 3)

\* pm25 40.0, pm10 20.0
PoorAir == Measurement(800, 400, 4, 5, 6)

\* pm25 155.0, pm10 360.0
SmokeAir == Measurement(3100, 7200, 7, 8, 9)

\* pm25 5.0, pm10 200.0
DustAir == Measurement(100, 4000, 10, 11, 12)

Env(nsw, bom, db, tick) == [nsw |-> nsw, bom |-> bom, db |-> db, tick |-> tick]

\* every outcome at every call
GeneralEnv ==
    LET ps == Range(get_nsw_postcodes) \cup {OtherPostcode}
    IN  Env([p \in ps |-> NswFailures \cup {NswOk(GoodAir), NswOk(SmokeAir)}],
            [p \in ps |-> BomFailures \cup {BomOk(PoorAir)}],
            {"ok", "raise"},
            {0, 1})

ScheduledEvent == [source |-> "aws.events"]

\* a JSON array, and a JSON value len() does not accept (a number, null)
PyList(items) == [items |-> items]

NotSized == [int |-> 5]

ManualEvent(list) == [source |-> "manual", postcodes |-> PyList(list)]

\* events the handler cannot work with: one that is no object, and a manual
\* one whose postcodes is no list
MalformedEvents == {NotADict, [source |-> "manual", postcodes |-> NotSized]}

SeqsUpTo(S, n) == UNION {[1..k -> S] : k \in 0..n}

ManualPostcodes == {NSW_POSTCODES[1], OtherPostcode}

Events ==
    {ScheduledEvent, [source |-> "manual"]}
        \cup {ManualEvent(l) : l \in SeqsUpTo(ManualPostcodes, MaxLen)}
        \cup MalformedEvents

-----------------------------------------------------------------------------
(* handler -> handle_scheduled_ingestion | handle_manual_ingestion         *)
(*         -> ingest_air_quality_data                                      *)

\* the postcodes argument of ingest_air_quality_data
NoArg == [given |-> FALSE, value |-> PyList(<<>>)]

Arg(v) == [given |-> TRUE, value |-> v]

HandlerArg(ev) ==
    LET event_source == Get(ev, "source", "manual")
    IN  IF event_source = "aws.events"
        THEN NoArg
        ELSE Arg(Get(ev, "postcodes", PyList(get_nsw_postcodes)))

\* event.get raises on an event that is no dict (line 44); len(postcodes)
\* raises on a value that has no length (line 105)
HandlerRaises(ev) ==
    IF ~IsDict(ev) THEN "'list' object has no attribute 'get'"
    ELSE IF HandlerArg(ev).given /\ "items" \notin DOMAIN HandlerArg(ev).value
         THEN "object of type 'int' has no len()"
    ELSE ""

\* handler's except clause: the exception becomes a returned response
\* faulty variant: the handler logs the exception and raises it again
HandlerExcept_reraise(message) == [pc |-> "raised", response |-> None]

HandlerExcept(message) ==
    [pc |-> "failed",
     response |-> [statusCode |-> 500,
                   body |-> [error |-> "Data ingestion failed", message |-> message]]]

\* if not postcodes: postcodes = get_nsw_postcodes()
\* faulty variant: a location is kept once however often the list names it
IngestPostcodes_distinct(arg) ==
    LET RECURSIVE Distinct(_)
        Distinct(l) ==
            IF l = <<>> THEN <<>>
            ELSE LET front == SubSeq(l, 1, Len(l) - 1)
                 IN  IF \E j \in DOMAIN front : front[j] = l[Len(l)]
                     THEN Distinct(front)
                     ELSE Append(Distinct(front), l[Len(l)])
    IN  IF ~arg.given \/ arg.value.items = <<>>
        THEN get_nsw_postcodes
        ELSE Distinct(arg.value.items)

IngestPostcodes(arg) ==
    IF ~arg.given \/ arg.value.items = <<>> THEN get_nsw_postcodes ELSE arg.value.items

NewResults(list) ==
    [total_postcodes |-> Len(list), successful |-> 0, failed |-> 0, errors |-> <<>>]

\* faulty variant: missing data is reported as an exception of the loop body
NoDataMsg_as_exception(postcode) ==
    [text |-> "Error ingesting data for postcode", postcode |-> postcode, detail |-> "no data"]

NoDataMsg(postcode) ==
    [text |-> "No data available for postcode", postcode |-> postcode, detail |-> ""]

ErrorMsg(postcode, e) ==
    [text |-> "Error ingesting data for postcode", postcode |-> postcode, detail |-> e]

\* faulty variant: the failure is counted but its message is not recorded
CountFailure_no_message(res, msg) == [res EXCEPT !.failed = @ + 1]

CountSuccess(res) == [res EXCEPT !.successful = @ + 1]

\* faulty variant: the newest message is put in front of the list
CountFailure_newest_first(res, msg) ==
    [res EXCEPT !.failed = @ + 1, !.errors = <<msg>> \o @]

CountFailure(res, msg) == [res EXCEPT !.failed = @ + 1, !.errors = Append(@, msg)]

\* one call of an adapter ("nsw", "bom": out "data" or "none") or of
\* store_air_quality_data ("put": out "ok" or "raise") for the location at pos
Call(fn, pos, out) == [fn |-> fn, pos |-> pos, out |-> out]

Outcome(d) == IF d = None THEN "none" ELSE "data"

\* faulty variant: the fallback adapter is called whatever the primary returned
AfterPrimary_always_fallback(d) == "bom"

\* fetch_air_quality_data after the primary adapter: return its data, or fall back
AfterPrimary(d) == IF d # None THEN "store" ELSE "bom"

\* faulty variant: a failure ends the for loop
AfterFailure_abort(i, n) == n + 1

\* faulty variant: a failed location is tried again
AfterFailure_retry(i, n) == i

\* faulty variant: the location after a failed one is skipped
AfterFailure_skip_next(i, n) == i + 2

\* a location has failed: the for loop goes on with the next one (i of n)
AfterFailure(i, n) == i + 1

\* faulty variant: successful is incremented before store_air_quality_data is called
AfterStore_counted_early(res, postcode, outcome) ==
    IF outcome = "ok"
    THEN CountSuccess(res)
    ELSE CountFailure(CountSuccess(res), ErrorMsg(postcode, "put_item"))

\* faulty variant: an exception of store_air_quality_data is swallowed and the
\* location is counted successful
AfterStore_raise_swallowed(res, postcode, outcome) == CountSuccess(res)

\* the loop body after store_air_quality_data returned or raised
AfterStore(res, postcode, outcome) ==
    IF outcome = "ok"
    THEN CountSuccess(res)
    ELSE CountFailure(res, ErrorMsg(postcode, "put_item"))

\* what put_item may do for the location p: the table's outcomes, or those
\* the environment fixes for that location
DbOutcomes(p) == IF "db_at" \in DOMAIN env THEN env.db_at[p] ELSE env.db

\* the values datetime.utcnow() may return next
NowValues == {clock + d : d \in env.tick} \cap (0..MaxClock)

Current(r) == postcodes[r][idx[r]]

\* faulty variant: the loop stops short of the last location
InLoop_stops_short(r) == pc[r] = "loop" /\ idx[r] < Len(postcodes[r])

InLoop(r) == pc[r] = "loop" /\ idx[r] <= Len(postcodes[r])

Invoke(r) ==
    /\ pc[r] = "idle"
    /\ event[r] # None
    /\ IF HandlerRaises(event[r]) # ""
       THEN LET out == HandlerExcept(HandlerRaises(event[r]))
            IN  /\ pc' = [pc EXCEPT ![r] = out.pc]
                /\ response' = [response EXCEPT ![r] = out.response]
                /\ UNCHANGED <<postcodes, results, idx>>
       ELSE LET list == IngestPostcodes(HandlerArg(event[r]))
            IN  /\ postcodes' = [postcodes EXCEPT ![r] = list]
                /\ results' = [results EXCEPT ![r] = NewResults(list)]
                /\ idx' = [idx EXCEPT ![r] = 1]
                /\ pc' = [pc EXCEPT ![r] = "loop"]
                /\ UNCHANGED response
    /\ UNCHANGED <<query, rating, env, clock, store, event, nsw_data, bom_data, air_quality_data,
                   calls>>

\* fetch_air_quality_data, up to the return of the primary adapter
FetchNsw(r) ==
    /\ InLoop(r)
    /\ \E resp \in env.nsw[Current(r)], now \in NowValues :
         LET d == fetch_nsw_air_quality_data(resp, Current(r), now)
         IN  /\ nsw_data' = [nsw_data EXCEPT ![r] = d]
             /\ clock' = IF d = None THEN clock ELSE now
             /\ pc' = [pc EXCEPT ![r] = AfterPrimary(d)]
             /\ air_quality_data' = [air_quality_data EXCEPT ![r] = d]
             /\ calls' = [calls EXCEPT ![r] = Append(@, Call("nsw", idx[r], Outcome(d)))]
    /\ UNCHANGED <<query, rating, env, store, event, postcodes, idx, results, bom_data, response>>

\* the rest of fetch_air_quality_data: the fallback adapter; with no data from
\* either, the loop records the failure
FetchBom(r) ==
    /\ pc[r] = "bom"
    /\ \E resp \in env.bom[Current(r)], now \in NowValues :
         LET d == fetch_bom_air_quality_data(resp, Current(r), now)
         IN  /\ clock' = IF d = None THEN clock ELSE now
             /\ IF d # None
                THEN /\ bom_data' = [bom_data EXCEPT ![r] = d]
                     /\ air_quality_data' = [air_quality_data EXCEPT ![r] = d]
                     /\ pc' = [pc EXCEPT ![r] = "store"]
                     /\ UNCHANGED <<results, idx, nsw_data>>
                ELSE /\ results' = [results EXCEPT ![r] = CountFailure(@, NoDataMsg(Current(r)))]
                     /\ idx' = [idx EXCEPT ![r] = AfterFailure(@, Len(postcodes[r]))]
                     /\ pc' = [pc EXCEPT ![r] = "loop"]
                     /\ nsw_data' = [nsw_data EXCEPT ![r] = None]
                     /\ UNCHANGED <<bom_data, air_quality_data>>
             /\ calls' = [calls EXCEPT ![r] = Append(@, Call("bom", idx[r], Outcome(d)))]
    /\ UNCHANGED <<query, rating, env, store, event, postcodes, response>>

\* store_air_quality_data and the bookkeeping after it
Store(r) ==
    /\ pc[r] = "store"
    /\ \E now \in NowValues, outcome \in DbOutcomes(Current(r)) :
         LET item == StoreItem(Current(r), air_quality_data[r], now)
         IN  /\ clock' = now
             /\ store' = IF outcome = "ok" THEN PutItem(store, item) ELSE store
             /\ results' = [results EXCEPT ![r] = AfterStore(@, Current(r), outcome)]
             /\ idx' = [idx EXCEPT ![r] =
                            IF outcome = "ok" THEN @ + 1 ELSE AfterFailure(@, Len(postcodes[r]))]
             /\ calls' = [calls EXCEPT ![r] = Append(@, Call("put", idx[r], outcome))]
    /\ pc' = [pc EXCEPT ![r] = "loop"]
    /\ nsw_data' = [nsw_data EXCEPT ![r] = None]
    /\ bom_data' = [bom_data EXCEPT ![r] = None]
    /\ air_quality_data' = [air_quality_data EXCEPT ![r] = None]
    /\ UNCHANGED <<query, rating, env, event, postcodes, response>>

\* faulty variant: a run in which no location succeeded is answered with 500
Return_500_without_success(r) ==
    /\ pc[r] = "loop"
    /\ idx[r] > Len(postcodes[r])
    /\ response' = [response EXCEPT ![r] =
            [statusCode |-> IF results[r].successful = 0 THEN 500 ELSE 200,
             body |-> [message |-> IF Get(event[r], "source", "manual") = "aws.events"
                                   THEN "Scheduled ingestion completed"
                                   ELSE "Manual ingestion completed",
                       result |-> results[r]]]]
    /\ pc' = [pc EXCEPT ![r] = "done"]
    /\ UNCHANGED <<query, rating, env, clock, store, event, postcodes, idx, results,
                   nsw_data, bom_data, air_quality_data, calls>>

\* the loop is over: ingest_air_quality_data returns results, handler 200
Return(r) ==
    /\ pc[r] = "loop"
    /\ idx[r] > Len(postcodes[r])
    /\ response' = [response EXCEPT ![r] =
            [statusCode |-> 200,
             body |-> [message |-> IF Get(event[r], "source", "manual") = "aws.events"
                                   THEN "Scheduled ingestion completed"
                                   ELSE "Manual ingestion completed",
                       result |-> results[r]]]]
    /\ pc' = [pc EXCEPT ![r] = "done"]
    /\ UNCHANGED <<query, rating, env, clock, store, event, postcodes, idx, results,
                   nsw_data, bom_data, air_quality_data, calls>>

Next ==
    \E r \in Runs :
        \/ Invoke(r)
        \/ FetchNsw(r)
        \/ FetchBom(r)
        \/ Store(r)
        \/ Return(r)

-----------------------------------------------------------------------------
(* Initial states *)

\* the invocations started with the events evs, in environment e0
InitRuns(e0, evs) ==
    /\ env = e0
    /\ clock = 0
    /\ store = {}
    /\ event = evs
    /\ pc = [r \in Runs |-> "idle"]
    /\ postcodes = [r \in Runs |-> <<>>]
    /\ idx = [r \in Runs |-> 0]
    /\ results = [r \in Runs |-> NewResults(<<>>)]
    /\ nsw_data = [r \in Runs |-> None]
    /\ bom_data = [r \in Runs |-> None]
    /\ air_quality_data = [r \in Runs |-> None]
    /\ response = [r \in Runs |-> None]
    /\ calls = [r \in Runs |-> <<>>]
    /\ rating = None
    /\ query = None

\* one invocation, started with event e, in environment e0
InitWith(e0, e) == InitRuns(e0, [r \in Runs |-> IF r = 1 THEN e ELSE None])

InitGeneral == \E e \in Events : InitWith(GeneralEnv, e)

\* the batch scenario: BatchLen locations, the locations at the positions F
\* get no data from either adapter, the others get data, every put succeeds
BatchList == SubSeq(NSW_POSTCODES, 1, BatchLen)

BatchEnv(F) ==
    Env([p \in Range(BatchList) |->
            IF \E k \in F : BatchList[k] = p THEN NswFailures ELSE {NswOk(GoodAir)}],
        [p \in Range(BatchList) |->
            IF \E k \in F : BatchList[k] = p THEN BomFailures ELSE {BomOk(PoorAir)}],
        {"ok"},
        {0})

InitBatch ==
    \E F \in SUBSET (1..BatchLen) :
        /\ Cardinality(F) <= BatchFail
        /\ InitWith(BatchEnv(F), ManualEvent(BatchList))

\* the scenario of test_data_ingestion_lambda: requests.get is mocked, every
\* request of either adapter gets the body {'data': [...]}, and the event is
\* the scheduled one
MockResponse == JsonResp([data |-> NotADict])

TestEnv ==
    Env([p \in Range(get_nsw_postcodes) |-> {MockResponse}],
        [p \in Range(get_nsw_postcodes) |-> {MockResponse}],
        {"ok"},
        {0, 1})

TestEvent == ("source" :> "aws.events") @@ ("detail-type" :> "Scheduled Event")

InitTest == InitWith(TestEnv, TestEvent)

Init == InitGeneral \/ InitBatch \/ InitTest

Spec == Init /\ [][Next]_vars

\* every call an invocation is waiting for returns or raises in the end
\* (requests.get has timeout=30; put_item returns or raises), and the
\* interpreter then goes on with the next statement
Step(r) == Invoke(r) \/ FetchNsw(r) \/ FetchBom(r) \/ Store(r) \/ Return(r)

\* each adapter answers with data or not at all, each put succeeds or raises
FairEnv ==
    LET ps == Range(get_nsw_postcodes) \cup {OtherPostcode}
    IN  Env([p \in ps |-> {NswOk(GoodAir), NetworkError}],
            [p \in ps |-> {BomOk(PoorAir), NetworkError}],
            {"ok", "raise"},
            {0})

InitFair == (\E e \in Events : InitWith(FairEnv, e)) \/ InitBatch \/ InitTest

SpecFair == InitFair /\ [][Next]_vars /\ \A r \in Runs : WF_vars(Step(r))

\* one location whose providers both report the measurements m; the NSW
\* request may fail, every put succeeds
ScoringEnv(ms) ==
    Env([p \in DOMAIN ms |-> {NswOk(ms[p]), NetworkError}],
        [p \in DOMAIN ms |-> {BomOk(ms[p])}],
        {"ok"},
        {0})

\* concentrations at and around the breakpoints
Pm25Samples == {0, 100, 240, 241, 242, 500, 708, 709, 710, 1108, 1110, 3008, 3009}

Pm10Samples == {0, 540, 1080, 1090, 1100, 2000, 3080, 3100, 5080, 5100, 7080, 7090}

\* concentrations far beyond the last breakpoints: 200.0, 500.4, 1000.0 and
\* 500, 604, 5000
Pm25Extremes == {0, 4000, 10008, 20000}

Pm10Extremes == {0, 10000, 12080, 100000}

\* pm25 in steps of 0.05 and pm10 in steps of 0.5 up to the bounds, the
\* combinations of the samples and the combinations of the extremes
ScoringInputs ==
    {Measurement(a, 0, 0, 0, 0) : a \in 0..MaxPm25}
        \cup {Measurement(0, 10 * b, 0, 0, 0) : b \in 0..MaxPm10}
        \cup {Measurement(a, b, 0, 0, 0) : a \in Pm25Samples, b \in Pm10Samples}
        \cup {Measurement(a, b, 0, 0, 0) : a \in Pm25Extremes, b \in Pm10Extremes}

InitScoring ==
    \E m \in ScoringInputs :
        InitWith(ScoringEnv([p \in {NSW_POSTCODES[1]} |-> m]),
                 ManualEvent(<<NSW_POSTCODES[1]>>))

SpecScoring == InitScoring /\ [][Next]_vars

\* two locations with measurements m1 and m2
PairPm25 == {100, 800, 3100}

PairPm10 == {400, 3000}

PairOthers == {0, 50}

PairInputs ==
    {Measurement(a, b, o, n, x) :
        a \in PairPm25, b \in PairPm10, o \in PairOthers, n \in PairOthers, x \in PairOthers}

InitPair ==
    \E m1 \in PairInputs, m2 \in PairInputs :
        InitWith(ScoringEnv([p \in {NSW_POSTCODES[1], NSW_POSTCODES[2]} |->
                                IF p = NSW_POSTCODES[1] THEN m1 ELSE m2]),
                 ManualEvent(<<NSW_POSTCODES[1], NSW_POSTCODES[2]>>))

SpecPair == InitPair /\ [][Next]_vars

\* two invocations of the handler, one after the other or overlapping: the
\* first scheduled or manual, the second manual for the first location; both
\* providers report the measurements m when they answer; the clock either
\* advances at every read or may also stand still between two reads
OverlapEnv(m, tick) ==
    LET ps == Range(get_nsw_postcodes)
    IN  Env([p \in ps |-> {NswOk(m), NetworkError}],
            [p \in ps |-> {BomOk(m), NetworkError}],
            {"ok", "raise"},
            tick)

OverlapAir == {DustAir}

InitOverlap ==
    \E m \in OverlapAir, tick \in {{1}, {0, 1}},
       e1 \in {ScheduledEvent, ManualEvent(<<NSW_POSTCODES[1]>>)} :
        InitRuns(OverlapEnv(m, tick),
                 [r \in Runs |-> IF r = 1 THEN e1
                                 ELSE IF r = 2 THEN ManualEvent(<<NSW_POSTCODES[1]>>)
                                 ELSE None])

SpecOverlap == InitOverlap /\ [][Next]_vars

\* payloads that lack pollutants, the measurements object or the location,
\* or carry fields the adapters do not know
Restrict(m, D) == [k \in D |-> m[k]]

WithHumidity(m) == [k \in DOMAIN m \cup {"humidity"} |-> IF k = "humidity" THEN 55 ELSE m[k]]

PartialMeasurements ==
    {Restrict(DustAir, D) : D \in SUBSET DOMAIN DustAir}
        \cup {WithHumidity(Restrict(DustAir, D)) : D \in SUBSET DOMAIN DustAir}

NswPartialPayloads ==
    {NswPayload(m) : m \in PartialMeasurements}
        \cup {[measurements |-> m, station |-> "Randwick"] : m \in PartialMeasurements}
        \cup {EmptyDict, [location |-> [latitude |-> -34, longitude |-> 151]]}

BomPartialPayloads ==
    {BomPayload(m) : m \in PartialMeasurements}
        \cup {[air_quality |-> m, station |-> "Randwick"] : m \in PartialMeasurements}
        \cup {EmptyDict, [location |-> [lat |-> -34, lon |-> 151]]}

\* the first location gets the payload a from NSW; the second gets nothing
\* from NSW and the payload b from BOM
PartialEnv(a, b) ==
    Env([p \in {NSW_POSTCODES[1], NSW_POSTCODES[2]} |->
            IF p = NSW_POSTCODES[1] THEN {JsonResp([data |-> a])} ELSE {NetworkError}],
        [p \in {NSW_POSTCODES[1], NSW_POSTCODES[2]} |-> {JsonResp([observations |-> b])}],
        {"ok", "raise"},
        {0})

InitPartial ==
    \E a \in NswPartialPayloads, b \in BomPartialPayloads :
        /\ Get(a, "measurements", EmptyDict) = Get(b, "air_quality", EmptyDict)
        /\ InitWith(PartialEnv(a, b), ManualEvent(<<NSW_POSTCODES[1], NSW_POSTCODES[2]>>))

SpecPartial == InitPartial /\ [][Next]_vars

\* the function's timeout (Duration.seconds(300)): the runtime ends the
\* invocation wherever it is; if it is inside store_air_quality_data, the
\* put_item may or may not have been done
TimeOut(r) ==
    /\ pc[r] \in {"loop", "bom", "store"}
    /\ pc' = [pc EXCEPT ![r] = "timed_out"]
    /\ \/ UNCHANGED <<store, clock>>
       \/ /\ pc[r] = "store"
          /\ \E now \in NowValues :
                /\ clock' = now
                /\ store' = PutItem(store, StoreItem(Current(r), air_quality_data[r], now))
    /\ UNCHANGED <<query, rating, env, event, postcodes, idx, results,
                   nsw_data, bom_data, air_quality_data, response, calls>>

NextInTime == Next \/ \E r \in Runs : TimeOut(r)

\* NSW may fail to answer, BOM answers, every put that is made succeeds
InTimeEnv ==
    LET ps == Range(get_nsw_postcodes)
    IN  Env([p \in ps |-> {NswOk(DustAir), NetworkError}],
            [p \in ps |-> {BomOk(DustAir)}],
            {"ok"},
            {0, 1})

\* two invocations, either of which may be ended by the timeout
InitInTime ==
    \E e1 \in {ScheduledEvent, ManualEvent(<<NSW_POSTCODES[1]>>),
                [source |-> "manual", postcodes |-> NotSized]} :
        InitRuns(InTimeEnv,
                 [r \in Runs |-> IF r = 1 THEN e1
                                 ELSE IF r = 2 THEN ManualEvent(<<NSW_POSTCODES[1]>>)
                                 ELSE None])

SpecInTime == InitInTime /\ [][NextInTime]_vars

\* the same PermLen locations in two orders: every location has one fixed
\* outcome, kind[p]: data from NSW and stored ("nsw"), data from BOM and
\* stored ("bom"), no data ("none"), data from NSW and put_item raises ("raise")
PermList == SubSeq(NSW_POSTCODES, 1, PermLen)

PermKinds == {"nsw", "bom", "none", "raise"}

PermEnv(kind) ==
    [nsw |-> [p \in Range(PermList) |->
                 IF kind[p] \in {"nsw", "raise"} THEN {NswOk(DustAir)} ELSE {NetworkError}],
     bom |-> [p \in Range(PermList) |->
                 IF kind[p] = "bom" THEN {BomOk(PoorAir)} ELSE {BadJson}],
     db |-> {"ok", "raise"},
     db_at |-> [p \in Range(PermList) |-> IF kind[p] = "raise" THEN {"raise"} ELSE {"ok"}],
     tick |-> {0}]

Orderings(list) ==
    {[k \in DOMAIN list |-> list[f[k]]] :
        f \in {g \in [DOMAIN list -> DOMAIN list] : \A i, j \in DOMAIN list : g[i] = g[j] => i = j}}

InitPermuted ==
    \E kind \in [Range(PermList) -> PermKinds], list \in Orderings(PermList) :
        InitRuns(PermEnv(kind),
                 [r \in Runs |-> IF r = 1 THEN ManualEvent(PermList)
                                 ELSE IF r = 2 THEN ManualEvent(list)
                                 ELSE None])

SpecPermuted == InitPermuted /\ [][Next]_vars

\* a request to /api/air-quality/current, at any time: without postcode,
\* with an empty one, or for a location; the table answers or raises
QueryParams ==
    {EmptyDict, [postcode |-> ""]}
        \cup {[postcode |-> p] : p \in {NSW_POSTCODES[1], NSW_POSTCODES[2]}}

CurrentAirQuality ==
    /\ \E query_params \in QueryParams, outcome \in {"ok", "raise"} :
            query' = [params |-> query_params,
                      table |-> outcome,
                      response |-> handle_current_air_quality(query_params, store, outcome)]
    /\ UNCHANGED <<env, clock, store, event, pc, postcodes, idx, results,
                   nsw_data, bom_data, air_quality_data, response, calls, rating>>

NextQuery == Next \/ CurrentAirQuality

\* two ingestions of the first location, and requests in between and after
QueryEnv ==
    LET ps == Range(get_nsw_postcodes)
    IN  Env([p \in ps |-> {NswOk(DustAir), NetworkError}],
            [p \in ps |-> {BomOk(PoorAir)}],
            {"ok"},
            {0, 1})

InitQuery ==
    InitRuns(QueryEnv,
             [r \in Runs |-> IF r \in {1, 2} THEN ManualEvent(<<NSW_POSTCODES[1]>>) ELSE None])

SpecQuery == InitQuery /\ [][NextQuery]_vars

\* get_quality_rating applied to an integer AQI
RateAqi ==
    /\ rating # None
    /\ rating.quality_rating = ""
    /\ rating' = [rating EXCEPT !.quality_rating = get_quality_rating(rating.aqi)]
    /\ UNCHANGED <<env, clock, store, event, pc, postcodes, idx, results,
                   nsw_data, bom_data, air_quality_data, response, calls, query>>

\* no invocation; an AQI from -MaxAqi to MaxAqi is to be rated
InitRating ==
    /\ \E a \in (-MaxAqi)..MaxAqi : rating = [aqi |-> a, quality_rating |-> ""]
    /\ env = GeneralEnv
    /\ clock = 0
    /\ store = {}
    /\ event = [r \in Runs |-> None]
    /\ pc = [r \in Runs |-> "idle"]
    /\ postcodes = [r \in Runs |-> <<>>]
    /\ idx = [r \in Runs |-> 0]
    /\ results = [r \in Runs |-> NewResults(<<>>)]
    /\ nsw_data = [r \in Runs |-> None]
    /\ bom_data = [r \in Runs |-> None]
    /\ air_quality_data = [r \in Runs |-> None]
    /\ response = [r \in Runs |-> None]
    /\ calls = [r \in Runs |-> <<>>]
    /\ query = None

SpecRating == InitRating /\ [][RateAqi]_vars

\* payloads whose pm25 or pm10 may be null or a string, next to numbers that
\* alone give the indices 0, 71 and 201
UncheckedValues == {NullValue, TextValue, 0, 500, 4000}

UncheckedMeasurements ==
    {Measurement(a, b, 10, 11, 12) : a \in UncheckedValues, b \in UncheckedValues \cup {10000}}

\* one location whose providers both report the measurements m; the NSW
\* request may fail, a put may raise
UncheckedEnv(m) ==
    Env([p \in {NSW_POSTCODES[1]} |-> {NswOk(m), NetworkError}],
        [p \in {NSW_POSTCODES[1]} |-> {BomOk(m)}],
        {"ok", "raise"},
        {0, 1})

InitUnchecked ==
    \E m \in UncheckedMeasurements :
        InitWith(UncheckedEnv(m), ManualEvent(<<NSW_POSTCODES[1]>>))

SpecUnchecked == InitUnchecked /\ [][Next]_vars

-----------------------------------------------------------------------------
(* Reading the call log *)

NswCalls(r) == SelectSeq(calls[r], LAMBDA c : c.fn = "nsw")

\* the number of locations run r has attempted
Attempted(r) == Len(NswCalls(r))

\* the number of entries of run r's log with this function and outcome
Count(r, fn, out) ==
    Cardinality({j \in DOMAIN calls[r] : calls[r][j].fn = fn /\ calls[r][j].out = out})

Logged(r, fn, pos, out) == \E j \in DOMAIN calls[r] : calls[r][j] = Call(fn, pos, out)

\* the postcodes of the locations of run r whose log has (fn, out), in log order
PostcodesWith(r, fn, out) ==
    LET hit == SelectSeq(calls[r], LAMBDA c : c.fn = fn /\ c.out = out)
    IN  [j \in 1..Len(hit) |-> postcodes[r][hit[j].pos]]

\* the postcodes named by the messages of run r with this text, in order
PostcodesOfErrors(r, text) ==
    LET hit == SelectSeq(results[r].errors, LAMBDA m : m.text = text)
    IN  [j \in 1..Len(hit) |-> hit[j].postcode]

Returned(r) == pc[r] = "done"

-----------------------------------------------------------------------------
(* C1: in a run of ingest_air_quality_data every location of the list is   *)
(* attempted exactly once, in list order, whatever the outcomes of the     *)
(* earlier locations were, and the run returns its results (it does not    *)
(* raise).                                                                 *)
C1_EveryLocationAttempted ==
    \A r \in Runs :
        /\ \A j \in 1..Attempted(r) : NswCalls(r)[j].pos = j
        /\ Attempted(r) <= Len(postcodes[r])
        /\ pc[r] = "loop" => Attempted(r) = idx[r] - 1
        /\ pc[r] \in {"bom", "store"} => Attempted(r) = idx[r]
        /\ Returned(r) =>
              /\ Attempted(r) = Len(postcodes[r])
              /\ response[r].statusCode = 200
              /\ response[r].body.result = results[r]

\* a run returned after persistence raised at the first location, neither
\* adapter had data for the second and the third was attempted
C1_Witness ==
    \E r \in Runs :
        /\ Returned(r)
        /\ Logged(r, "put", 1, "raise")
        /\ \/ Logged(r, "bom", 2, "none") /\ Logged(r, "put", 3, "ok")
           \/ Logged(r, "put", 2, "ok")

(* C2: successful + failed is the number of locations whose attempt is     *)
(* over, len(errors) is failed, the total is the length of the list; at    *)
(* return successful + failed is the total.  When every put succeeds, the  *)
(* locations for which no adapter ever has data are the failed ones and    *)
(* the others the successful ones (10 locations, 3 without data: total 10, *)
(* successful 7, failed 3, 3 messages).                                    *)
NoDataPositions(r) ==
    {k \in DOMAIN postcodes[r] :
        /\ env.nsw[postcodes[r][k]] \subseteq NswFailures
        /\ env.bom[postcodes[r][k]] \subseteq BomFailures}

DataPositions(r) ==
    {k \in DOMAIN postcodes[r] :
        \/ env.nsw[postcodes[r][k]] \cap NswFailures = {}
        \/ env.bom[postcodes[r][k]] \cap BomFailures = {}}

C2_Counters ==
    \A r \in Runs :
        LET res == results[r]
            over == IF pc[r] \in {"bom", "store"} THEN Attempted(r) - 1 ELSE Attempted(r)
        IN  /\ res.successful + res.failed = over
            /\ Len(res.errors) = res.failed
            /\ res.total_postcodes = Len(postcodes[r])
            /\ Returned(r) =>
                  /\ res.successful + res.failed = res.total_postcodes
                  /\ response[r].body.result = res
            /\ (/\ Returned(r)
                /\ env.db = {"ok"}
                /\ NoDataPositions(r) \cup DataPositions(r) = DOMAIN postcodes[r])
               => /\ res.successful = Cardinality(DataPositions(r))
                  /\ res.failed = Cardinality(NoDataPositions(r))
                  /\ Len(res.errors) = Cardinality(NoDataPositions(r))

C2_Witness ==
    \E r \in Runs :
        /\ Returned(r)
        /\ env.db = {"ok"}
        /\ Cardinality(NoDataPositions(r)) = 3
        /\ Cardinality(DataPositions(r)) = 7
        /\ response[r].body.result.total_postcodes = 10
        /\ response[r].body.result.successful = 7
        /\ response[r].body.result.failed = 3
        /\ Len(response[r].body.result.errors) = 3

(* C3: a location whose fetch gave data and whose store_air_quality_data   *)
(* raised is counted in failed, with one error message, and not in         *)
(* successful: successful counts exactly the store calls that returned.    *)
C3_PersistenceFailureIsFailure ==
    \A r \in Runs :
        /\ results[r].successful = Count(r, "put", "ok")
        /\ results[r].failed = Count(r, "put", "raise") + Count(r, "bom", "none")
        /\ PostcodesOfErrors(r, "Error ingesting data for postcode")
               = PostcodesWith(r, "put", "raise")

C3_Witness ==
    \E r \in Runs :
        /\ Returned(r)
        /\ Logged(r, "nsw", 1, "data")
        /\ Logged(r, "put", 1, "raise")
        /\ results[r].successful = 0
        /\ results[r].failed = 1
        /\ results[r].errors = <<ErrorMsg(postcodes[r][1], "put_item")>>

(* C4: fetch_air_quality_data calls the NSW adapter first and the BOM      *)
(* adapter if and only if the NSW adapter gave no data; its result is the  *)
(* data of the first adapter that gave some, and it is no data if and only *)
(* if both adapters gave none.                                             *)
C4_FallbackOrder ==
    \A r \in Runs :
        /\ \A j \in DOMAIN calls[r] :
            LET c == calls[r][j]
                last == j = Len(calls[r])
            IN  /\ c.fn = "bom" => j > 1 /\ calls[r][j - 1] = Call("nsw", c.pos, "none")
                /\ (c.fn = "nsw" /\ c.out = "none") =>
                      IF last THEN pc[r] = "bom"
                      ELSE calls[r][j + 1].fn = "bom" /\ calls[r][j + 1].pos = c.pos
                /\ (c.fn = "nsw" /\ c.out = "data") =>
                      IF last
                      THEN /\ pc[r] = "store"
                           /\ air_quality_data[r] = nsw_data[r]
                           /\ air_quality_data[r].source = "nsw_government"
                      ELSE calls[r][j + 1].fn = "put" /\ calls[r][j + 1].pos = c.pos
                /\ (c.fn = "bom" /\ c.out = "data") =>
                      IF last
                      THEN /\ pc[r] = "store"
                           /\ nsw_data[r] = None
                           /\ air_quality_data[r] = bom_data[r]
                           /\ air_quality_data[r].source = "bom"
                      ELSE calls[r][j + 1].fn = "put" /\ calls[r][j + 1].pos = c.pos
                /\ (c.fn = "bom" /\ c.out = "none") =>
                      (~last => calls[r][j + 1].fn = "nsw" /\ calls[r][j + 1].pos = c.pos + 1)
                /\ c.fn = "put" =>
                      j > 1 /\ calls[r][j - 1].pos = c.pos /\ calls[r][j - 1].out = "data"
        /\ PostcodesOfErrors(r, "No data available for postcode")
               = PostcodesWith(r, "bom", "none")

\* the fallback was used at the first location and not at the second
C4_Witness ==
    \E r \in Runs :
        /\ Len(calls[r]) >= 4
        /\ calls[r][1] = Call("nsw", 1, "none")
        /\ calls[r][2] = Call("bom", 1, "data")
        /\ calls[r][3].fn = "put"
        /\ calls[r][4] = Call("nsw", 2, "data")
        /\ pc[r] = "store"

(* C5: the source of a stored Reading names the adapter whose call gave    *)
(* its data: a Reading with source bom is stored only for a location whose *)
(* NSW adapter gave no data in that run and whose BOM adapter gave data,   *)
(* one with source nsw_government only for a location whose NSW adapter    *)
(* gave data; and when the NSW adapter fails and the BOM adapter returns   *)
(* data, the put stores a Reading with source bom and the location is      *)
(* counted successful.                                                     *)
Pollutants == {"pm25", "pm10", "ozone", "no2", "so2"}

\* the Reading x carries the measurements m
Carries(x, m) == \A k \in Pollutants : x[k] = Get(m, k, 0)

FromNsw(x) ==
    \E resp \in env.nsw[x.postcode] :
        /\ resp.kind = "json"
        /\ "data" \in DOMAIN resp.body
        /\ IsDict(resp.body.data)
        /\ Carries(x, Get(resp.body.data, "measurements", EmptyDict))

FromBom(x) ==
    \E resp \in env.bom[x.postcode] :
        /\ resp.kind = "json"
        /\ "observations" \in DOMAIN resp.body
        /\ IsDict(resp.body.observations)
        /\ Carries(x, Get(resp.body.observations, "air_quality", EmptyDict))

C5_StoredProvenance ==
    \A x \in store :
        /\ x.source \in {"nsw_government", "bom"}
        /\ x.source = "bom" =>
              /\ FromBom(x)
              /\ \E r \in Runs : \E k \in DOMAIN postcodes[r] :
                    /\ postcodes[r][k] = x.postcode
                    /\ Logged(r, "nsw", k, "none")
                    /\ Logged(r, "bom", k, "data")
                    /\ Logged(r, "put", k, "ok")
        /\ x.source = "nsw_government" =>
              /\ FromNsw(x)
              /\ \E r \in Runs : \E k \in DOMAIN postcodes[r] :
                    /\ postcodes[r][k] = x.postcode
                    /\ Logged(r, "nsw", k, "data")
                    /\ Logged(r, "put", k, "ok")

\* the put of a location whose data came from the fallback
C5_FallbackPut(r) ==
    /\ pc[r] = "store"
    /\ nsw_data[r] = None
    /\ calls'[r] = Append(calls[r], Call("put", idx[r], "ok"))

C5_FallbackStored(r) ==
    /\ \E x \in store' :
          /\ x.source = "bom"
          /\ x.postcode = postcodes[r][idx[r]]
          /\ x.timestamp = air_quality_data[r].timestamp
          /\ x.aqi = air_quality_data[r].aqi
    /\ results'[r].successful = results[r].successful + 1
    /\ results'[r].failed = results[r].failed

C5_Provenance ==
    /\ []C5_StoredProvenance
    /\ [][\A r \in Runs : C5_FallbackPut(r) => C5_FallbackStored(r)]_vars

\* the NSW adapter failed at the first location, the BOM adapter gave data,
\* the Reading is in the store and the location counted
C5_Witness ==
    \E r \in Runs :
        /\ Logged(r, "nsw", 1, "none")
        /\ Logged(r, "bom", 1, "data")
        /\ Logged(r, "put", 1, "ok")
        /\ results[r].successful >= 1
        /\ \E x \in store : x.source = "bom" /\ x.postcode = postcodes[r][1]

(* C6: a run retries nothing: for each position of the list each adapter   *)
(* and the store are called at most once, and the calls never go back to   *)
(* an earlier position, so a failed location is not attempted again.       *)
C6_NoRetry ==
    \A r \in Runs :
        \A i, j \in DOMAIN calls[r] :
            i < j =>
                /\ calls[r][i].pos <= calls[r][j].pos
                /\ ~(calls[r][i].fn = calls[r][j].fn /\ calls[r][i].pos = calls[r][j].pos)

\* a run returned after one location failed at fetch and one at persistence
C6_Witness ==
    \E r \in Runs :
        /\ Returned(r)
        /\ Count(r, "bom", "none") >= 1
        /\ Count(r, "put", "raise") >= 1
        /\ Len(calls[r]) >= 4

-----------------------------------------------------------------------------
(* Readings at hand: the stored items and the Readings the runs hold *)

Readings == store \cup ({air_quality_data[r] : r \in Runs} \ {None})

(* C7: for every combination of pm25 and pm10 the AQI calculate_aqi gives  *)
(* a Reading is the larger of calculate_pm25_aqi(pm25) and                 *)
(* calculate_pm10_aqi(pm10).                                               *)
C7_AqiIsMax ==
    \A x \in Readings :
        LET a == calculate_pm25_aqi(x.pm25)
            b == calculate_pm10_aqi(x.pm10)
        IN  /\ x.aqi >= a
            /\ x.aqi >= b
            /\ x.aqi = a \/ x.aqi = b

\* a stored Reading whose PM10 sub-index is the larger one
C7_Witness ==
    \E x \in store :
        /\ x.pm25 > 0
        /\ calculate_pm10_aqi(x.pm10) > calculate_pm25_aqi(x.pm25)
        /\ x.aqi = calculate_pm10_aqi(x.pm10)

(* C8: two measurements that agree on pm25 and pm10 give Readings with the *)
(* same AQI and the same rating whatever their ozone, no2 and so2 are, and *)
(* the Reading carries the ozone, no2 and so2 of its measurement.          *)
C8_OtherPollutantsIgnored ==
    /\ \A x, y \in Readings :
          (x.pm25 = y.pm25 /\ x.pm10 = y.pm10) =>
              (x.aqi = y.aqi /\ x.quality_rating = y.quality_rating)
    /\ \A x \in Readings : FromNsw(x) /\ FromBom(x)

\* two stored Readings that differ in ozone, no2 and so2 only
C8_Witness ==
    \E x, y \in store :
        /\ x.pm25 = y.pm25 /\ x.pm10 = y.pm10
        /\ x.ozone # y.ozone /\ x.no2 # y.no2 /\ x.so2 # y.so2
        /\ x.aqi = y.aqi

(* C9: calculate_pm25_aqi and calculate_pm10_aqi are non-decreasing: for   *)
(* 0 <= a <= b the sub-index of a is at most the sub-index of b, within    *)
(* the bands, between them and into the saturated region.                  *)
C9_Monotone ==
    \A r \in Runs :
        air_quality_data[r] # None =>
            LET x == air_quality_data[r]
            IN  /\ \A a \in 0..x.pm25 : calculate_pm25_aqi(a) <= calculate_pm25_aqi(x.pm25)
                /\ \A a \in 0..(x.pm10 \div 10) :
                      calculate_pm10_aqi(10 * a) <= calculate_pm10_aqi(x.pm10)
                /\ x.pm10 = 0 => \A a \in 0..x.pm25 : calculate_pm25_aqi(a) <= x.aqi
                /\ x.pm25 = 0 => \A a \in 0..(x.pm10 \div 10) : calculate_pm10_aqi(10 * a) <= x.aqi

\* a Reading for pm25 = 12.05, between the first band and the second
C9_Witness ==
    \E r \in Runs :
        /\ air_quality_data[r] # None
        /\ air_quality_data[r].pm25 = 241
        /\ air_quality_data[r].aqi = 50
        /\ calculate_pm25_aqi(242) = 51

(* C10: inside a breakpoint band [lo, hi] with AQI range [olo, ohi] the    *)
(* sub-index is floor((value - lo) / (hi - lo) * (ohi - olo) + olo); pm25  *)
(* 0.0, 12.0, 35.4, 55.4 give 0, 50, 100, 150 and pm10 54, 154 give 50,    *)
(* 100.                                                                    *)
Band(lo, hi, olo, ohi) == [lo |-> lo, hi |-> hi, olo |-> olo, ohi |-> ohi]

Pm25Bands ==
    {Band(0, 240, 0, 50), Band(242, 708, 51, 100), Band(710, 1108, 101, 150),
     Band(1110, 3008, 151, 200)}

Pm10Bands ==
    {Band(0, 1080, 0, 50), Band(1100, 3080, 51, 100), Band(3100, 5080, 101, 150),
     Band(5100, 7080, 151, 200)}

\* floor((v - lo) / (hi - lo) * (ohi - olo) + olo)
Interpolated(v, b) ==
    ((v - b.lo) * (b.ohi - b.olo) + b.olo * (b.hi - b.lo)) \div (b.hi - b.lo)

C10_Interpolation ==
    \A x \in Readings :
        /\ \A b \in Pm25Bands :
              (b.lo <= x.pm25 /\ x.pm25 <= b.hi) =>
                  /\ calculate_pm25_aqi(x.pm25) = Interpolated(x.pm25, b)
                  /\ x.pm10 = 0 => x.aqi = Interpolated(x.pm25, b)
        /\ \A b \in Pm10Bands :
              (b.lo <= x.pm10 /\ x.pm10 <= b.hi) =>
                  /\ calculate_pm10_aqi(x.pm10) = Interpolated(x.pm10, b)
                  /\ x.pm25 = 0 => x.aqi = Interpolated(x.pm10, b)
        /\ x.pm10 = 0 =>
              /\ x.pm25 = 0 => x.aqi = 0
              /\ x.pm25 = 240 => x.aqi = 50
              /\ x.pm25 = 708 => x.aqi = 100
              /\ x.pm25 = 1108 => x.aqi = 150
        /\ x.pm25 = 0 =>
              /\ x.pm10 = 1080 => x.aqi = 50
              /\ x.pm10 = 3080 => x.aqi = 100

\* a stored Reading for pm25 = 35.4
C10_Witness ==
    \E x \in store : x.pm25 = 708 /\ x.pm10 = 0 /\ x.aqi = 100

-----------------------------------------------------------------------------
(* C11: every pm25 above 150.4 and every pm10 above 354 gives the sub-index *)
(* 201 exactly, and there is no interpolation beyond it: the AQI of a      *)
(* Reading is 201 as soon as one of the two is beyond its last breakpoint, *)
(* and no Reading has an AQI above 201.                                    *)
C11_Saturation ==
    \A x \in Readings :
        /\ x.pm25 > 3008 => calculate_pm25_aqi(x.pm25) = 201
        /\ x.pm10 > 7080 => calculate_pm10_aqi(x.pm10) = 201
        /\ (x.pm25 > 3008 \/ x.pm10 > 7080) => x.aqi = 201
        /\ x.aqi <= 201

\* stored Readings just above 150.4, far above it, and far above 354, all
\* with AQI 201
C11_Witness ==
    \E x \in store :
        /\ x.aqi = 201
        /\ \/ x.pm25 = 3009 /\ x.pm10 = 0
           \/ x.pm25 = 20000 /\ x.pm10 = 0
           \/ x.pm25 = 0 /\ x.pm10 = 100000

-----------------------------------------------------------------------------
(* C12: get_quality_rating gives, for every integer AQI, good up to 50,    *)
(* moderate from 51 to 100, unhealthy_for_sensitive_groups from 101 to     *)
(* 150, unhealthy from 151 to 200, very_unhealthy from 201 to 300 and      *)
(* hazardous above 300.                                                    *)
C12_RatingTable ==
    (rating # None /\ rating.quality_rating # "") =>
        LET a == rating.aqi
            q == rating.quality_rating
        IN  /\ q = "good" <=> a <= 50
            /\ q = "moderate" <=> (51 <= a /\ a <= 100)
            /\ q = "unhealthy_for_sensitive_groups" <=> (101 <= a /\ a <= 150)
            /\ q = "unhealthy" <=> (151 <= a /\ a <= 200)
            /\ q = "very_unhealthy" <=> (201 <= a /\ a <= 300)
            /\ q = "hazardous" <=> a > 300

\* 301 has been rated hazardous
C12_Witness ==
    /\ rating # None
    /\ rating.aqi = 301
    /\ rating.quality_rating = "hazardous"

-----------------------------------------------------------------------------
(* C13: in every Reading the pipeline has written to the store, after any  *)
(* sequence of runs, quality_rating is get_quality_rating of the Reading's *)
(* aqi, and aqi is calculate_aqi of the Reading's pm25 and pm10.           *)
C13_StoredReadingsCoherent ==
    \A x \in store :
        /\ x.quality_rating = get_quality_rating(x.aqi)
        /\ x.aqi = calculate_aqi([pm25 |-> x.pm25, pm10 |-> x.pm10])

\* both runs have returned and each has written a Reading that is still in
\* the store, with PM10 deciding the AQI
C13_Witness ==
    /\ \A r \in {1, 2} : Returned(r) /\ results[r].successful >= 1
    /\ Cardinality(store) >= 2
    /\ \A x \in store : x.aqi = calculate_pm10_aqi(x.pm10) /\ x.aqi > calculate_pm25_aqi(x.pm25)

-----------------------------------------------------------------------------
\* the locations invocation r has attempted, in order
AttemptedPostcodes(r) ==
    [k \in 1..Len(NswCalls(r)) |-> postcodes[r][NswCalls(r)[k].pos]]

\* the event of invocation r carries an explicit list of locations
ExplicitList(r) ==
    /\ Get(event[r], "source", "manual") # "aws.events"
    /\ "postcodes" \in DOMAIN event[r]

(* C14: a run started with an explicit location list processes exactly     *)
(* that list, whatever the list is; a run started without one, which       *)
(* includes every scheduled invocation, processes the full registry.       *)
C14_ProcessesGivenList ==
    \A r \in Runs :
        Returned(r) =>
            AttemptedPostcodes(r) =
                IF ExplicitList(r) THEN event[r].postcodes.items ELSE get_nsw_postcodes

-----------------------------------------------------------------------------
\* the puts that succeeded, over all invocations
SuccessfulPuts ==
    UNION {{<<r, j>> : j \in {i \in DOMAIN calls[r] :
                                calls[r][i].fn = "put" /\ calls[r][i].out = "ok"}} :
           r \in Runs}

SameValues(x, y) ==
    /\ \A k \in Pollutants : x[k] = y[k]
    /\ x.aqi = y.aqi
    /\ x.quality_rating = y.quality_rating

(* C15: when the pipeline runs twice for the same location, the providers  *)
(* report the same measurements both times and both puts succeed, the      *)
(* store holds two distinct Readings of the location, with different       *)
(* timestamps, each the time of its ingestion, and with the same pollutant *)
(* values, AQI and rating: the second run does not replace the Reading of  *)
(* the first.  The clock advances between any two reads.                   *)
C15_Reingestion ==
    env.tick = {1} =>
        /\ Cardinality(store) = Cardinality(SuccessfulPuts)
        /\ \A x \in store : x.timestamp <= x.ttl.after /\ x.ttl.after <= clock
        /\ \A x \in store, y \in store :
                x # y => /\ x.timestamp # y.timestamp
                         /\ x.postcode = y.postcode => SameValues(x, y)

\* two runs for the same location, the second started after the first had
\* stored its Reading, and both Readings are in the store
C15_Witness ==
    /\ env.tick = {1}
    /\ \A r \in {1, 2} :
            /\ Returned(r)
            /\ postcodes[r] = <<NSW_POSTCODES[1]>>
            /\ results[r].successful = 1
    /\ \E x \in store, y \in store :
            /\ y.timestamp > x.ttl.after
            /\ x.postcode = y.postcode
            /\ SameValues(x, y)
            /\ store = {x, y}

-----------------------------------------------------------------------------
SameKey(x, y) == x.PK = y.PK /\ x.SK = y.SK

\* invocation r completes a successful put in this step
PutsNow(r) ==
    /\ pc[r] = "store"
    /\ calls'[r] = Append(calls[r], Call("put", idx[r], "ok"))

\* the counters of every run count its own locations only
C16_OwnCounters ==
    \A r \in Runs :
        /\ results[r].total_postcodes = Len(postcodes[r])
        /\ results[r].successful = Count(r, "put", "ok")
        /\ results[r].failed = Count(r, "bom", "none") + Count(r, "put", "raise")
        /\ Returned(r) =>
                results[r].successful + results[r].failed = results[r].total_postcodes

\* no two items of the store have the same key
C16_KeyedStore == \A x \in store, y \in store : SameKey(x, y) => x = y

\* a put leaves the items with other keys, removes the one with its key and
\* adds its item; nothing else changes the store
C16_PutReplaces ==
    /\ \A r \in Runs :
            PutsNow(r) =>
                LET item == StoreItem(postcodes[r][idx[r]], air_quality_data[r], clock')
                IN  store' = {x \in store : ~SameKey(x, item)} \cup {item}
    /\ (\A r \in Runs : ~PutsNow(r)) => store' = store

\* the counters of a run change only in a step of that run
C16_CountersChangeInOwnSteps ==
    \A r \in Runs :
        results'[r] # results[r] =>
            /\ pc'[r] # pc[r] \/ calls'[r] # calls[r]
            /\ \A q \in Runs \ {r} : pc'[q] = pc[q] /\ calls'[q] = calls[q]

(* C16: when two runs overlap, their fetches and puts interleaved in any   *)
(* order, the store is keyed by location and timestamp: of two puts with   *)
(* the same key only the later item remains, puts with different keys     *)
(* both remain; and the counters of each run count only its own locations, *)
(* successful plus failed being its own total when it returns.             *)
C16_OverlappingRuns ==
    /\ [](C16_OwnCounters /\ C16_KeyedStore)
    /\ [][C16_PutReplaces /\ C16_CountersChangeInOwnSteps]_vars

\* the second run has returned while the first is between its two
\* locations; both have stored a Reading of the same location at the same
\* instant, and the store holds one of them
C16_Witness ==
    /\ pc[1] = "loop" /\ idx[1] = 2 /\ Len(postcodes[1]) >= 2
    /\ results[1].successful = 1
    /\ Returned(2) /\ results[2].successful = 1
    /\ Cardinality(store) = 1

-----------------------------------------------------------------------------
\* what the trigger sees of invocation r: a handler that returns, whatever
\* it returns, is a successful invocation; one that raises is a failed one
InvocationOutcome(r) ==
    IF response[r] # None THEN "succeeded"
    ELSE IF pc[r] = "raised" THEN "failed"
    ELSE "running"

\* an error outside the per-location loop has ended invocation r
Aborted(r) == pc[r] \in {"failed", "raised"}

\* nothing is attempted after the abort and no results are returned
C18_AbortsWholeRun ==
    \A r \in Runs :
        Aborted(r) =>
            /\ calls[r] = <<>>
            /\ ~ENABLED (FetchNsw(r) \/ FetchBom(r) \/ Store(r) \/ Return(r))
            /\ response[r] = None \/ "result" \notin DOMAIN response[r].body

(* C18: an error raised outside the per-location loop, such as one raised  *)
(* while the location list is obtained or its length computed, aborts the  *)
(* whole run: no location is attempted after it, no results are returned,  *)
(* and the trigger sees a failed invocation, not a successful one.         *)
C18_SurfacedAsFailedInvocation ==
    \A r \in Runs :
        Aborted(r) =>
            /\ C18_AbortsWholeRun
            /\ InvocationOutcome(r) = "failed"

-----------------------------------------------------------------------------
(* C17: provided every adapter call and every put returns or fails in the  *)
(* end, a run over a finite list of locations terminates in the end, only  *)
(* after it has attempted every location of the list, and returns its      *)
(* results.                                                                *)
C17_Terminates ==
    \A r \in Runs :
        /\ (pc[r] = "loop") ~> Returned(r)
        /\ [](Returned(r) =>
                /\ Attempted(r) = Len(postcodes[r])
                /\ \A k \in DOMAIN postcodes[r] : \E c \in Range(NswCalls(r)) : c.pos = k
                /\ response[r].body.result = results[r])

\* the run over the BatchLen locations has returned, some locations failed
C17_Witness ==
    /\ Returned(1)
    /\ Len(postcodes[1]) = BatchLen
    /\ results[1].failed >= 1
    /\ results[1].successful >= 1

-----------------------------------------------------------------------------
\* the measurements object the provider of Reading x was given to report
GivenMeasurements(x) ==
    IF x.source = "nsw_government"
    THEN LET resp == CHOOSE v \in env.nsw[x.postcode] : v.kind = "json"
         IN  Get(resp.body.data, "measurements", EmptyDict)
    ELSE LET resp == CHOOSE v \in env.bom[x.postcode] : v.kind = "json"
         IN  Get(resp.body.observations, "air_quality", EmptyDict)

(* C19: an adapter does not fail because a pollutant is missing from the   *)
(* payload or because the payload has fields it does not know.  A response *)
(* that has the provider's top-level key and lacks any of pm25, pm10,      *)
(* ozone, no2, so2, or the whole measurements object, gives a Reading in   *)
(* which every missing pollutant is 0 and every other one is as reported,  *)
(* and the location counts as fetched: no "No data available" message.     *)
C19_MissingFieldsDefault ==
    /\ \A r \in Runs : \A j \in DOMAIN calls[r] :
            LET c == calls[r][j]
            IN  /\ (c.fn = "nsw" /\ c.pos = 1) => c.out = "data"
                /\ (c.fn = "bom" /\ c.pos = 2) => c.out = "data"
    /\ \A r \in Runs :
            PostcodesOfErrors(r, "No data available for postcode") = <<>>
    /\ \A x \in Readings :
            LET m == GivenMeasurements(x)
            IN  /\ \A k \in Pollutants : x[k] = IF k \in DOMAIN m THEN m[k] ELSE 0
                /\ x.aqi = Max(calculate_pm25_aqi(x.pm25), calculate_pm10_aqi(x.pm10))

\* both locations are stored: NSW reported pm10 and no2 only, with an
\* unknown field, and BOM the same
C19_Witness ==
    /\ Returned(1)
    /\ results[1].successful = 2
    /\ \E x \in store, y \in store :
            /\ x.source = "nsw_government" /\ y.source = "bom"
            /\ DOMAIN GivenMeasurements(x) = {"pm10", "no2", "humidity"}
            /\ x.pm25 = 0 /\ x.ozone = 0 /\ x.so2 = 0
            /\ x.pm10 = 4000 /\ x.no2 = 11
            /\ SameValues(x, y)

-----------------------------------------------------------------------------
Scheduled(r) ==
    /\ event[r] # None
    /\ IsDict(event[r])
    /\ Get(event[r], "source", "manual") = "aws.events"

\* the handler is through with invocation r
Ended(r) == pc[r] \notin {"idle", "loop", "bom", "store"}

(* C20: for a scheduled event the handler returns statusCode 200 with the  *)
(* results of the run whenever the loop has run to its end, however many   *)
(* locations failed, also when the payload of the provider cannot be       *)
(* processed for any location and every location fails.                    *)
C20_ScheduledReturns200 ==
    \A r \in Runs :
        (Scheduled(r) /\ Ended(r)) =>
            /\ Attempted(r) = Len(get_nsw_postcodes)
            /\ response[r].statusCode = 200
            /\ response[r].body.message = "Scheduled ingestion completed"
            /\ response[r].body.result = results[r]
            /\ results[r].successful + results[r].failed = Len(get_nsw_postcodes)

\* the test's scenario: no payload could be processed, every location of
\* the registry failed, and the answer is 200
C20_Witness ==
    /\ env = TestEnv
    /\ event[1] = TestEvent
    /\ Returned(1)
    /\ response[1].statusCode = 200
    /\ results[1].successful = 0
    /\ results[1].failed = Len(get_nsw_postcodes)
    /\ Count(1, "nsw", "none") = Len(get_nsw_postcodes)
    /\ Count(1, "bom", "none") = Len(get_nsw_postcodes)

-----------------------------------------------------------------------------
\* the calls of run r that made a location fail, in log order
FailedCalls(r) ==
    SelectSeq(calls[r], LAMBDA c : (c.fn = "bom" /\ c.out = "none")
                                      \/ (c.fn = "put" /\ c.out = "raise"))

(* C21: the messages of the errors list are in the order in which the      *)
(* failed locations stand in the location list, one message for each       *)
(* failed location, and each names its location.                           *)
C21_ErrorsInListOrder ==
    \A r \in Runs :
        LET f == FailedCalls(r)
            e == results[r].errors
        IN  /\ Len(e) = Len(f)
            /\ \A j \in DOMAIN f : e[j].postcode = postcodes[r][f[j].pos]
            /\ \A i, j \in DOMAIN f : i < j => f[i].pos < f[j].pos

\* the run over the BatchLen locations returned with three failures, at
\* three different locations, the last of the list among them
C21_Witness ==
    /\ Returned(1)
    /\ Len(postcodes[1]) = BatchLen
    /\ Len(results[1].errors) = 3
    /\ results[1].errors[3].postcode = postcodes[1][BatchLen]
    /\ results[1].errors[1].postcode # results[1].errors[2].postcode
    /\ response[1].body.result.errors = results[1].errors

-----------------------------------------------------------------------------
\* the handler of invocation r has ended without returning results
Stopped(r) == pc[r] \in {"failed", "timed_out"}

\* every item of the store is still there after the step, or an item put in
\* this step with the same key has taken its place
C22_KeptOrReplaced ==
    \A x \in store :
        \/ x \in store'
        \/ \E y \in store' \ store : SameKey(x, y)

\* the step in which an invocation stops removes nothing
C22_StopKeepsStore ==
    \A r \in Runs :
        (~Stopped(r) /\ Stopped(r)') =>
            \A x \in store : \E y \in store' : SameKey(x, y) /\ (y = x \/ y \notin store)

(* C22: the pipeline only appends.  No step deletes a stored Reading, and  *)
(* a stored Reading changes only when a later put has the same location   *)
(* and timestamp; so when a run is aborted or ended by the timeout, at any *)
(* point, what was stored before is in the store afterwards.               *)
C22_AppendOnly == [][C22_KeptOrReplaced /\ C22_StopKeepsStore]_vars

\* the first run was ended by the timeout after it had stored a Reading,
\* the second run has stored another one and returned
C22_Witness ==
    /\ pc[1] = "timed_out"
    /\ results[1].successful = 1
    /\ Returned(2)
    /\ results[2].successful = 1
    /\ Cardinality(store) = 2

-----------------------------------------------------------------------------
\* how often the message m is in the errors of run r
Occurrences(r, m) ==
    Cardinality({j \in DOMAIN results[r].errors : results[r].errors[j] = m})

\* the locations of run r with this outcome of this call
LocationsWith(r, fn, out) == Range(PostcodesWith(r, fn, out))

(* C23: the locations of a run are independent.  What happens to a         *)
(* location depends only on what its adapters and its put do, so a run     *)
(* over a permutation of the list has the same successful and failed       *)
(* counts and the same multiset of messages, and stores for the same       *)
(* locations.                                                              *)
C23_PermutationInvariant ==
    (Returned(1) /\ Returned(2)) =>
        /\ results[1].successful = results[2].successful
        /\ results[1].failed = results[2].failed
        /\ results[1].total_postcodes = results[2].total_postcodes
        /\ \A m \in Range(results[1].errors) \cup Range(results[2].errors) :
                Occurrences(1, m) = Occurrences(2, m)
        /\ LocationsWith(1, "put", "ok") = LocationsWith(2, "put", "ok")
        /\ LocationsWith(1, "bom", "data") = LocationsWith(2, "bom", "data")

\* both runs have returned, the second over the reversed list; a location
\* was stored, one had no data and one failed at put_item
C23_Witness ==
    /\ Returned(1) /\ Returned(2)
    /\ postcodes[2][1] = postcodes[1][Len(postcodes[1])]
    /\ postcodes[2][Len(postcodes[2])] = postcodes[1][1]
    /\ results[1].successful >= 1
    /\ results[1].failed >= 2
    /\ \E i, j \in DOMAIN results[2].errors :
            results[2].errors[i].text # results[2].errors[j].text
    /\ results[1].errors # results[2].errors

-----------------------------------------------------------------------------
\* the stored Readings of a location
StoredFor(p) == {x \in store : x.postcode = p}

\* the request was answered while the store was as it is now
Answered ==
    /\ query # None
    /\ query.table = "ok"
    /\ query.response = handle_current_air_quality(query.params, store, "ok")

\* the answers 400 and 404
C24_NoPostcodeNoReading ==
    Answered =>
        LET p == Get(query.params, "postcode", "")
        IN  /\ p = "" <=> query.response.statusCode = 400
            /\ (p # "" /\ StoredFor(p) = {}) <=> query.response.statusCode = 404
            /\ (p # "" /\ StoredFor(p) # {}) <=> query.response.statusCode = 200

(* C24: after any sequence of ingestion runs, the query for the current    *)
(* air quality of a location answers 200 with the stored Reading of that   *)
(* location that has the greatest timestamp, 404 when no Reading of the    *)
(* location is stored, and 400 when no postcode is given.                  *)
C24_QueryReturnsLatest ==
    /\ C24_NoPostcodeNoReading
    /\ Answered =>
            LET p == Get(query.params, "postcode", "")
            IN  (p # "" /\ StoredFor(p) # {}) =>
                    \A x \in StoredFor(p) : x.timestamp <= query.response.body.current.timestamp

-----------------------------------------------------------------------------
\* some adapter has returned data for the location at pos in run r
Fetched(r, pos) == Logged(r, "nsw", pos, "data") \/ Logged(r, "bom", pos, "data")

(* C25: whatever makes an adapter fail - the network, a payload that       *)
(* cannot be parsed or processed, an empty response - the loop sees only   *)
(* that there is no data: the message is "No data available for postcode"  *)
(* with the location, never the one of the loop's exception branch.  A     *)
(* message "Error ingesting data for postcode" is there only when put_item *)
(* raised after an adapter had returned data.                              *)
C25_AdapterFailuresAreNoData ==
    \A r \in Runs :
        LET f == FailedCalls(r)
            e == results[r].errors
        IN  /\ Len(e) = Len(f)
            /\ \A j \in DOMAIN f :
                    /\ e[j].text = "No data available for postcode"
                            <=> (f[j].fn = "bom" /\ ~Fetched(r, f[j].pos))
                    /\ e[j].text = "Error ingesting data for postcode"
                            <=> (f[j].fn = "put" /\ Fetched(r, f[j].pos))
                    /\ e[j].text \in {"No data available for postcode",
                                      "Error ingesting data for postcode"}
            /\ \A k \in DOMAIN postcodes[r] :
                    (Logged(r, "nsw", k, "none") /\ Logged(r, "bom", k, "none")) =>
                        \E j \in DOMAIN e : e[j] = NoDataMsg(postcodes[r][k])

\* in an environment where adapters fail in every way, a run returned with
\* a location without data and a location whose put raised
C25_Witness ==
    /\ env = GeneralEnv
    /\ Returned(1)
    /\ Len(results[1].errors) = 2
    /\ results[1].errors[1].text = "No data available for postcode"
    /\ results[1].errors[2].text = "Error ingesting data for postcode"

-----------------------------------------------------------------------------
\* the positions of the list of run r whose put_item has completed
WrittenPositions(r) == {k \in DOMAIN postcodes[r] : Logged(r, "put", k, "ok")}

\* the positions of the list of run r counted failed for missing data
MissingPositions(r) == {k \in DOMAIN postcodes[r] : Logged(r, "bom", k, "none")}

\* between two steps of the loop: what run r has counted is what it has written
C26_CountedIsWritten ==
    \A r \in Runs :
        /\ results[r].successful = Cardinality(WrittenPositions(r))
        /\ \A k \in MissingPositions(r) :
                \A out \in {"ok", "raise"} : ~Logged(r, "put", k, out)

\* a step counts a location of run r successful exactly when it writes the
\* Reading of that location; a step that counts a failure writes nothing
C26_CountsWithWrite ==
    \A r \in Runs :
        /\ results'[r].successful # results[r].successful =>
                /\ results'[r].successful = results[r].successful + 1
                /\ pc[r] = "store"
                /\ WrittenPositions(r)' = WrittenPositions(r) \cup {idx[r]}
                /\ idx[r] \notin WrittenPositions(r)
                /\ \E x \in store' : /\ x.postcode = Current(r)
                                     /\ x.timestamp = air_quality_data[r].timestamp
                                     /\ x.ttl.after = clock'
        /\ results'[r].successful = results[r].successful =>
                WrittenPositions(r)' = WrittenPositions(r)
        /\ results'[r].failed # results[r].failed => store' = store

-----------------------------------------------------------------------------
(* C27: the handler never raises to its caller.  For every event, from the *)
(* schedule or manual, well formed or not, an invocation that has ended    *)
(* has returned a response: statusCode 200 when the loop ran to its end,   *)
(* with the batch result in the body, or statusCode 500 when an exception  *)
(* occurred before the loop, with no batch result in the body.             *)
C27_AlwaysReturnsResponse ==
    \A r \in Runs :
        /\ pc[r] \in {"idle", "loop", "bom", "store", "done", "failed"}
        /\ ~Ended(r) => response[r] = None
        /\ Ended(r) =>
              /\ response[r] # None
              /\ InvocationOutcome(r) = "succeeded"
              /\ response[r].statusCode \in {200, 500}
              /\ response[r].statusCode = 200 =>
                    /\ HandlerRaises(event[r]) = ""
                    /\ idx[r] = Len(postcodes[r]) + 1
                    /\ DOMAIN response[r].body = {"message", "result"}
                    /\ response[r].body.result = results[r]
              /\ response[r].statusCode = 500 =>
                    /\ HandlerRaises(event[r]) # ""
                    /\ calls[r] = <<>>
                    /\ DOMAIN response[r].body = {"error", "message"}
                    /\ response[r].body.message = HandlerRaises(event[r])

\* an invocation whose event is no object has ended: the exception was
\* turned into the response 500
C27_Witness ==
    \E r \in Runs :
        /\ event[r] # None
        /\ ~IsDict(event[r])
        /\ Ended(r)
        /\ pc[r] = "failed"
        /\ response[r].statusCode = 500
        /\ response[r].body.error = "Data ingestion failed"

-----------------------------------------------------------------------------
(* C28: for pm25 and pm10 that are not negative the AQI of every Reading   *)
(* lies in 0..201; no stored Reading is rated hazardous; a Reading is      *)
(* rated very_unhealthy if and only if its AQI is 201, which is if and     *)
(* only if pm25 > 150.4 or pm10 > 354.                                     *)
C28_AqiRange ==
    \A x \in Readings :
        (x.pm25 >= 0 /\ x.pm10 >= 0) =>
            /\ x.aqi \in 0..201
            /\ x.quality_rating # "hazardous"
            /\ x.quality_rating = "very_unhealthy" <=> x.aqi = 201
            /\ x.aqi = 201 <=> (x.pm25 > 3008 \/ x.pm10 > 7080)

\* a stored Reading rated very_unhealthy for its pm10 alone, far above 354
C28_Witness ==
    \E x \in store :
        /\ x.pm25 <= 3008
        /\ x.pm10 = 100000
        /\ x.aqi = 201
        /\ x.quality_rating = "very_unhealthy"

-----------------------------------------------------------------------------
\* the list of locations the manual event of run r names, when it names some
NamedList(r) ==
    IF /\ event[r] # None
       /\ IsDict(event[r])
       /\ ExplicitList(r)
       /\ "items" \in DOMAIN event[r].postcodes
    THEN event[r].postcodes.items
    ELSE <<>>

\* how often the list l names the location m
TimesNamed(l, m) == Cardinality({k \in DOMAIN l : l[k] = m})

\* how often run r has called the primary adapter for the location m
TimesAttempted(r, m) ==
    Cardinality({j \in DOMAIN calls[r] :
                    /\ calls[r][j].fn = "nsw"
                    /\ postcodes[r][calls[r][j].pos] = m})

\* how often run r has counted the location m, successful or failed
TimesCounted(r, m) ==
    Cardinality({j \in DOMAIN calls[r] :
                    /\ postcodes[r][calls[r][j].pos] = m
                    /\ \/ calls[r][j].fn = "put"
                       \/ calls[r][j] = Call("bom", calls[r][j].pos, "none")})

\* a returned run has attempted and counted every location as often as the
\* list names it
C29_EveryOccurrenceCounts ==
    \A r \in Runs :
        (Returned(r) /\ NamedList(r) # <<>>) =>
            /\ results[r].total_postcodes = Len(NamedList(r))
            /\ results[r].successful + results[r].failed = Len(NamedList(r))
            /\ \A m \in Range(NamedList(r)) :
                    /\ TimesAttempted(r, m) = TimesNamed(NamedList(r), m)
                    /\ TimesCounted(r, m) = TimesNamed(NamedList(r), m)

\* the Reading of an occurrence is stamped when the occurrence is processed,
\* and the put of that occurrence writes the Reading with this stamp
C29_StampedWhenProcessed ==
    \A r \in Runs :
        /\ (air_quality_data'[r] # air_quality_data[r] /\ air_quality_data'[r] # None) =>
                /\ air_quality_data'[r].timestamp = clock'
                /\ air_quality_data'[r].postcode = Current(r)
        /\ results'[r].successful = results[r].successful + 1 =>
                \E x \in store' : /\ x.postcode = Current(r)
                                   /\ x.timestamp = air_quality_data[r].timestamp
                                   /\ x.timestamp <= clock'

(* C29: a location that the list names k times is attempted k times in the *)
(* run and adds k to the total and to successful + failed; every           *)
(* successful occurrence writes its own Reading, stamped with the time at  *)
(* which that occurrence was processed.                                    *)
C29_RepeatedLocation == []C29_EveryOccurrenceCounts /\ [][C29_StampedWhenProcessed]_vars

\* a returned run whose list names one location twice: both occurrences were
\* written, at different times, and both Readings are in the store
C29_Witness ==
    \E r \in Runs :
        /\ Returned(r)
        /\ NamedList(r) = <<NSW_POSTCODES[1], NSW_POSTCODES[1]>>
        /\ results[r].total_postcodes = 2
        /\ results[r].successful = 2
        /\ \E x, y \in store :
                /\ x.postcode = NSW_POSTCODES[1]
                /\ y.postcode = NSW_POSTCODES[1]
                /\ x.timestamp < y.timestamp

-----------------------------------------------------------------------------
\* the Reading x carries a pm25 or pm10 that is no number
Unscorable(x) == ~IsNumber(x.pm25) \/ ~IsNumber(x.pm10)

(* C30: calculate_aqi never raises.  When a sub-index cannot be computed   *)
(* because pm25 or pm10 is no number, it returns 0: the Reading is built   *)
(* with AQI 0 and rating good, the adapter returns it as data, and the     *)
(* location goes on to store_air_quality_data instead of being recorded as *)
(* a location without data.                                                *)
C30_UnscorableIsGood ==
    /\ \A m \in UncheckedMeasurements :
            /\ calculate_aqi(m) \in 0..201
            /\ Unscorable(m) => calculate_aqi(m) = 0
    /\ \A x \in Readings :
            Unscorable(x) => (x.aqi = 0 /\ x.quality_rating = "good")
    /\ \A r \in Runs :
            /\ pc[r] # "bom" => Count(r, "nsw", "none") = Count(r, "bom", "data")
            /\ Count(r, "bom", "none") = 0
            /\ \A j \in DOMAIN results[r].errors :
                    results[r].errors[j].text # "No data available for postcode"
            /\ Returned(r) =>
                    Count(r, "put", "ok") + Count(r, "put", "raise") = Len(postcodes[r])

\* a Reading with a string for pm25 and a pm10 that alone has the index 201
\* was stored with AQI 0, and its location was counted successful
C30_Witness ==
    /\ Returned(1)
    /\ results[1].successful = 1
    /\ Logged(1, "nsw", 1, "data")
    /\ \E x \in store :
            /\ x.pm25 = TextValue
            /\ x.pm10 = 10000
            /\ calculate_pm10_aqi(x.pm10) = 201
            /\ x.aqi = 0
            /\ x.quality_rating = "good"

====
